---- MODULE Spec2Model ----
(***************************************************************************)
(* The three chunking scripts of 508Data:                                  *)
(*   wcag_scraper.py      ("html")  fetch, flatten to text, split on       *)
(*                                  "Success Criterion d.d.d Title"        *)
(*   wcag22pdfscraper.py  ("pdf")   read the pages, split on "d.d.d Title" *)
(*   import requests.py   ("flat")  fetch, one chunk per text element      *)
(*                                                                         *)
(* A Python str is a sequence of one-character strings.  The regular       *)
(* expressions are operators over such sequences that return what the re   *)
(* module returns for the pattern written in the source (leftmost match,   *)
(* greedy quantifiers, backtracking where the pattern can backtrack).      *)
(***************************************************************************)
EXTENDS Integers, Sequences, FiniteSets, TLC

(***************************************************************************)
(* Character classes of the patterns.                                      *)
(***************************************************************************)
NL == "\n"
Whitespace == {" ", "\t", NL}
Digits == {"0", "1", "2", "3", "4", "5", "6", "7", "8", "9"}

IsSpace(c) == c \in Whitespace
IsDigit(c) == c \in Digits

Min(a, b) == IF a <= b THEN a ELSE b

\* s[i..] (1-based), empty when i > Len(s)
From(s, i) == SubSeq(s, i, Len(s))

\* TRUE iff lit occurs in s at position i
LitAt(s, i, lit) ==
  /\ i >= 1
  /\ i + Len(lit) - 1 <= Len(s)
  /\ \A k \in 1..Len(lit) : s[i + k - 1] = lit[k]

\* end (exclusive) of the maximal run of characters of class cls from i
RECURSIVE RunEnd(_, _, _)
RunEnd(s, i, cls) ==
  IF i <= Len(s) /\ s[i] \in cls THEN RunEnd(s, i + 1, cls) ELSE i

\* end (exclusive) of the maximal run of characters other than newline from i
RECURSIVE LineEnd(_, _)
LineEnd(s, i) ==
  IF i <= Len(s) /\ s[i] # NL THEN LineEnd(s, i + 1) ELSE i

(***************************************************************************)
(* str.strip(): leading and trailing whitespace removed.                   *)
(***************************************************************************)
RECURSIVE LastNonSpace(_, _)
LastNonSpace(s, i) ==
  IF i >= 1 /\ IsSpace(s[i]) THEN LastNonSpace(s, i - 1) ELSE i

Strip(s) == SubSeq(s, RunEnd(s, 1, Whitespace), LastNonSpace(s, Len(s)))

(***************************************************************************)
(* re.sub(r"\s+", " ", s): every maximal whitespace run becomes one space. *)
(***************************************************************************)
RECURSIVE SubSpaces(_, _)
SubSpaces(s, i) ==
  IF i > Len(s) THEN <<>>
  ELSE IF IsSpace(s[i])
       THEN <<" ">> \o SubSpaces(s, RunEnd(s, i, Whitespace))
       ELSE <<s[i]>> \o SubSpaces(s, i + 1)

\* a faulty clean: r"\s\s" in place of r"\s+" (pairs of whitespace, not runs)
RECURSIVE SubSpacePairs(_, _)
SubSpacePairs(s, i) ==
  IF i > Len(s) THEN <<>>
  ELSE IF IsSpace(s[i]) /\ i < Len(s) /\ IsSpace(s[i + 1])
       THEN <<" ">> \o SubSpacePairs(s, i + 2)
       ELSE <<s[i]>> \o SubSpacePairs(s, i + 1)

cleanPairs(txt) == Strip(SubSpacePairs(txt, 1))

\* a faulty clean: no strip()
cleanNoStrip(txt) == SubSpaces(txt, 1)

\* clean() of wcag_scraper.py (text is never None here: "text or ''" is text)
clean(text) == Strip(SubSpaces(text, 1))

\* clean() of wcag22pdfscraper.py
pdf_clean(txt) == Strip(SubSpaces(txt, 1))

(***************************************************************************)
(* The literal words of the patterns.                                      *)
(***************************************************************************)
SuccessCriterion == <<"S", "u", "c", "c", "e", "s", "s", " ", "C", "r", "i", "t", "e", "r", "i", "o", "n">>
LevelOpen == <<"(", "L", "e", "v", "e", "l">>

(***************************************************************************)
(* \d\.\d\.\d+ at i: the end (exclusive) of the match, 0 when none.  \d+   *)
(* is greedy and what follows it in every pattern is \s+, which cannot     *)
(* start on a digit, so only the maximal digit run can lead to a match.    *)
(***************************************************************************)
IdEnd(s, i) ==
  IF /\ i >= 1
     /\ i + 4 <= Len(s)
     /\ IsDigit(s[i]) /\ s[i + 1] = "." /\ IsDigit(s[i + 2]) /\ s[i + 3] = "."
     /\ IsDigit(s[i + 4])
  THEN RunEnd(s, i + 4, Digits)
  ELSE 0

(***************************************************************************)
(* \s+[^\n]+ at i: the end (exclusive) of the match, 0 when none.  \s+     *)
(* takes the longest whitespace run that still leaves [^\n]+ a character   *)
(* other than newline to start on; [^\n]+ then runs to the end of line.    *)
(***************************************************************************)
TailEnd(s, i) ==
  LET w == RunEnd(s, i, Whitespace)
      starts == {j \in (i + 1)..Min(w, Len(s)) : s[j] # NL}
  IN  IF starts = {} THEN 0
      ELSE LineEnd(s, CHOOSE j \in starts : \A k \in starts : k <= j)

\* wcag_scraper.py: (Success Criterion\s+\d\.\d\.\d+\s+[^\n]+) at i
HtmlHeadingEnd(s, i) ==
  IF ~LitAt(s, i, SuccessCriterion) THEN 0
  ELSE LET a == i + Len(SuccessCriterion)
           b == RunEnd(s, a, Whitespace)
           c == IF b > a THEN IdEnd(s, b) ELSE 0
       IN  IF c = 0 THEN 0 ELSE TailEnd(s, c)

\* wcag22pdfscraper.py: (\d\.\d\.\d+\s+[^\n]+) at i
PdfHeadingEnd(s, i) ==
  LET c == IdEnd(s, i) IN IF c = 0 THEN 0 ELSE TailEnd(s, c)

HeadingEnd(variant, s, i) ==
  IF variant = "html" THEN HtmlHeadingEnd(s, i) ELSE PdfHeadingEnd(s, i)

\* the leftmost position >= i where the heading pattern matches, 0 when none
RECURSIVE NextHeading(_, _, _)
NextHeading(variant, s, i) ==
  IF i > Len(s) THEN 0
  ELSE IF HeadingEnd(variant, s, i) # 0 THEN i
  ELSE NextHeading(variant, s, i + 1)

(***************************************************************************)
(* re.split(pattern, s) for a pattern with one capturing group around the  *)
(* whole match: the text before the first match, then for every match the  *)
(* matched text and the text up to the next match (or to the end).         *)
(***************************************************************************)
RECURSIVE SplitFrom(_, _, _)
SplitFrom(variant, s, i) ==
  LET m == NextHeading(variant, s, i)
      e == HeadingEnd(variant, s, m)
  IN  IF m = 0 THEN <<From(s, i)>>
      ELSE <<SubSeq(s, i, m - 1), SubSeq(s, m, e - 1)>> \o SplitFrom(variant, s, e)

\* a faulty split: one that keeps no empty segment (str.split() habits)
RECURSIVE SplitDropEmpty(_, _, _)
SplitDropEmpty(variant, s, i) ==
  LET m == NextHeading(variant, s, i)
      e == HeadingEnd(variant, s, m)
      keep(x) == IF x = <<>> THEN <<>> ELSE <<x>>
  IN  IF m = 0 THEN keep(From(s, i))
      ELSE <<SubSeq(s, i, m - 1), SubSeq(s, m, e - 1)>>
             \o (IF NextHeading(variant, s, e) = 0
                 THEN keep(From(s, e))
                 ELSE SplitDropEmpty(variant, s, e))

re_split_drop_empty(variant, s) == SplitDropEmpty(variant, s, 1)

re_split(variant, s) == SplitFrom(variant, s, 1)

(***************************************************************************)
(* The spans [start, end) of the heading matches of s, in text order: what *)
(* re.finditer gives for the same pattern.                                 *)
(***************************************************************************)
RECURSIVE MatchesFrom(_, _, _)
MatchesFrom(variant, s, i) ==
  LET m == NextHeading(variant, s, i)
      e == HeadingEnd(variant, s, m)
  IN  IF m = 0 THEN <<>>
      ELSE <<[start |-> m, end |-> e]>> \o MatchesFrom(variant, s, e)

HeadingMatches(variant, s) == MatchesFrom(variant, s, 1)

(***************************************************************************)
(* Heading decomposition, re.match at the start of the cleaned header.     *)
(* The result is [ok, id, title]; ok = FALSE is Python's m = None.  After  *)
(* the identifier \s+ takes the whole whitespace run and the title group the rest of  *)
(* the line, which may be empty.                                           *)
(***************************************************************************)
NoMatch == [ok |-> FALSE, id |-> <<>>, title |-> <<>>]

IdAndTitle(s, i) ==
  LET c == IdEnd(s, i)
      w == IF c = 0 THEN 0 ELSE RunEnd(s, c, Whitespace)
  IN  IF c = 0 \/ w = c THEN NoMatch
      ELSE [ok |-> TRUE, id |-> SubSeq(s, i, c - 1),
            title |-> SubSeq(s, w, LineEnd(s, w) - 1)]

\* a faulty decomposition: the identifier alone is enough, \s* in place of \s+
IdAndTitleLoose(s, i) ==
  LET c == IdEnd(s, i)
      w == IF c = 0 THEN 0 ELSE RunEnd(s, c, Whitespace)
  IN  IF c = 0 THEN NoMatch
      ELSE [ok |-> TRUE, id |-> SubSeq(s, i, c - 1),
            title |-> SubSeq(s, w, LineEnd(s, w) - 1)]

\* wcag22pdfscraper.py: re.match of  (\d\.\d\.\d+)\s+ and the title group  .*  on header_txt
PdfDecomposeLoose(header) == IdAndTitleLoose(header, 1)

PdfDecompose(header) == IdAndTitle(header, 1)

\* wcag_scraper.py: re.match of  Success Criterion\s+(\d\.\d\.\d+)\s+ and the title group  .*
HtmlDecompose(header) ==
  IF ~LitAt(header, 1, SuccessCriterion) THEN NoMatch
  ELSE LET a == 1 + Len(SuccessCriterion)
           b == RunEnd(header, a, Whitespace)
       IN  IF b = a THEN NoMatch ELSE IdAndTitle(header, b)

(***************************************************************************)
(* The level marker \(Level\s+([A]{1,3})\) at i: [end, level], end = 0     *)
(* when there is no match at i.  [A]{1,3} must be followed by ")", so a    *)
(* run of more than three A matches nowhere.                               *)
(***************************************************************************)
LevelAt(s, i) ==
  IF ~LitAt(s, i, LevelOpen) THEN [end |-> 0, level |-> <<>>]
  ELSE LET a == i + Len(LevelOpen)
           b == RunEnd(s, a, Whitespace)
           c == RunEnd(s, b, {"A"})
       IN  IF b > a /\ c - b \in 1..3 /\ c <= Len(s) /\ s[c] = ")"
           THEN [end |-> c + 1, level |-> SubSeq(s, b, c - 1)]
           ELSE [end |-> 0, level |-> <<>>]

RECURSIVE NextLevel(_, _)
NextLevel(s, i) ==
  IF i > Len(s) THEN 0
  ELSE IF LevelAt(s, i).end # 0 THEN i
  ELSE NextLevel(s, i + 1)

\* Python's None, distinct from every str
None == <<"None">>

\* a faulty search: the level of the last marker of the body, not of the first
RECURSIVE LastLevelFrom(_, _, _)
LastLevelFrom(s, i, found) ==
  LET m == NextLevel(s, i)
  IN  IF m = 0 THEN found
      ELSE LastLevelFrom(s, LevelAt(s, m).end, LevelAt(s, m).level)

LevelOfLast(body) == LastLevelFrom(body, 1, None)

\* re.search(r"\(Level\s+([A]{1,3})\)", body): group(1) of the first match
LevelOf(body) ==
  LET m == NextLevel(body, 1)
  IN  IF m = 0 THEN None ELSE LevelAt(body, m).level

\* re.sub(r"\(Level\s+[A]{1,3}\)", "", body): one left-to-right pass
RECURSIVE RemoveLevelsFrom(_, _)
RemoveLevelsFrom(s, i) ==
  LET m == NextLevel(s, i)
  IN  IF m = 0 THEN From(s, i)
      ELSE SubSeq(s, i, m - 1) \o RemoveLevelsFrom(s, LevelAt(s, m).end)

RemoveLevels(body) == RemoveLevelsFrom(body, 1)

(***************************************************************************)
(* Bounds of the inputs.                                                   *)
(***************************************************************************)
MaxNodes == 4
MaxPages == 3
MaxElements == 3

\* all sequences over S of length at most n
SeqsUpTo(S, n) == UNION {[1..k -> S] : k \in 0..n}

(***************************************************************************)
(* wcag_scraper.py: the page is the sequence of text nodes under the main  *)
(* element, each drawn from HtmlNodeTexts.                                 *)
(***************************************************************************)
HtmlNodeTexts ==
  { <<"S", "u", "c", "c", "e", "s", "s", " ", "C", "r", "i", "t", "e", "r", "i", "o", "n", " ", "1", ".", "1", ".", "1", " ", "T">>,
    <<"S", "u", "c", "c", "e", "s", "s", " ", "C", "r", "i", "t", "e", "r", "i", "o", "n", " ", "1", ".", "1", ".", "1", "2">>,
    <<" ", "x", "\t", " ", "y", "\n">>,
    <<"(", "L", "e", "v", "e", "l", " ", "A", ")">>,
    <<"(", "L", "e", "v", "e", "l">>,
    <<"A", "A", "A", ")">> }

\* tag.get_text(separator, strip=True): every string stripped, the empty
\* ones left out, the rest joined by the separator
RECURSIVE get_text(_, _)
get_text(strings, separator) ==
  IF strings = <<>> THEN <<>>
  ELSE LET head == Strip(Head(strings))
           rest == get_text(Tail(strings), separator)
       IN  IF head = <<>> THEN rest
           ELSE IF rest = <<>> THEN head
           ELSE head \o separator \o rest

(***************************************************************************)
(* wcag22pdfscraper.py: the document is a sequence of pages, the text of   *)
(* each (page.extract_text()) drawn from PdfPageTexts.                     *)
(***************************************************************************)
PdfPageTexts ==
  { <<"1", ".", "1", ".", "1", " ", "T", "i", "t", "l", "e">>,
    <<"1", ".", "1", ".", "1", "2", " ", " ">>,
    <<" ", "x", "\t", " ", "y", " ">>,
    <<>>,
    <<"2", "1", ".", "1", ".", "1", " ", "T", "\n", "b", "o", "d", "y">>,
    <<"\t">> }

\* lines 13-15: full_text = ""; for page in pdf.pages: full_text += "\n" + text
RECURSIVE ReadPages(_)
ReadPages(pgs) ==
  IF pgs = <<>> THEN <<>>
  ELSE ReadPages(SubSeq(pgs, 1, Len(pgs) - 1)) \o <<NL>> \o pgs[Len(pgs)]

(***************************************************************************)
(* import requests.py: the elements content.find_all returns, each a tag   *)
(* name and the strings under the tag.                                     *)
(***************************************************************************)
TagNames == {"h1", "h2", "h3", "p", "li"}

ElementStrings ==
  { <<<<" ", "\n">>>>,
    <<<<" ", "B", "o", "d", "y", "\n", " ", "t", "e", "x", "t">>, <<" ">>, <<"\t", "m", "o", "r", "e", " ">>>> }

Elements == [name : TagNames, strings : ElementStrings]

(***************************************************************************)
(* The responses requests.get can return.  status 0 stands for no response *)
(* at all (requests.get raises).  A 3xx status is one requests does not    *)
(* follow (304, or a redirect without Location).                           *)
(***************************************************************************)
Statuses == {0, 200, 304, 404, 503}

NoPage == [strings |-> <<>>, hasBody |-> TRUE, elements |-> <<>>]

HtmlPages == {[NoPage EXCEPT !.strings = n] : n \in SeqsUpTo(HtmlNodeTexts, MaxNodes)}

FlatPages ==
  {[NoPage EXCEPT !.elements = e] : e \in SeqsUpTo(Elements, MaxElements)}
    \cup {[NoPage EXCEPT !.hasBody = FALSE]}

\* the pages served with a status other than 200
OtherPages(variant) ==
  IF variant = "html"
  THEN {[NoPage EXCEPT !.strings = n] : n \in SeqsUpTo(HtmlNodeTexts, 1)}
  ELSE {[NoPage EXCEPT !.elements = e] : e \in SeqsUpTo(Elements, 1)}

Responses(variant) ==
  {[status |-> 200, page |-> pg] :
      pg \in IF variant = "html" THEN HtmlPages ELSE FlatPages}
    \cup {[status |-> st, page |-> pg] :
            st \in Statuses \ {200}, pg \in OtherPages(variant)}

\* Response.raise_for_status(): HTTPError for 4xx and 5xx, nothing otherwise
RaisesForStatus(status) == 400 <= status /\ status < 600

(***************************************************************************)
(* Constants of the scripts.                                               *)
(***************************************************************************)
WCAG_URL == "https://www.w3.org/TR/WCAG22/"
PDF_SOURCE == "WCAG 2.2 PDF"
url == "https://www.access-board.gov/ict/"

Scripts == {"html", "pdf", "flat"}

\* el before the loop of import requests.py has bound it
Unbound == [name |-> "unbound", strings |-> <<>>]

VARIABLES
  script,      \* which of the three scripts runs
  pc,          \* where the run is
  response,    \* what requests.get returns (html, flat)
  pages,       \* the pages of the PDF (pdf)
  full_text,   \* the flattened text (html, pdf)
  parts,       \* the result of re.split
  it,          \* the iterator: index of the next item the running loop takes
  chunks,      \* the list of chunks
  origin,      \* for each chunk, the number of the (header, body) pair it is from
  paragraphs,  \* flat: the non-empty texts
  el,          \* flat: the loop variable of the scan, alive after the loop
  outfile,     \* the JSON file: [written, data]
  error        \* the exception that ended the run, "none" while there is none

vars == <<script, pc, response, pages, full_text, parts, it, chunks, origin,
          paragraphs, el, outfile, error>>

NoResponse == [status |-> 200, page |-> NoPage]

Init ==
  /\ script \in Scripts
  /\ pc = "start"
  /\ response \in IF script = "pdf" THEN {NoResponse} ELSE Responses(script)
  /\ pages \in IF script = "pdf" THEN SeqsUpTo(PdfPageTexts, MaxPages) ELSE {<<>>}
  /\ full_text = <<>>
  /\ parts = <<>>
  /\ it = 1
  /\ chunks = <<>>
  /\ origin = <<>>
  /\ paragraphs = <<>>
  /\ el = Unbound
  /\ outfile = [written |-> FALSE, data |-> <<>>]
  /\ error = "none"

\* faulty appends: at the front, and twice
AppendFront(list, x) == <<x>> \o list

AppendTwice(list, x) == list \o <<x, x>>

\* list.append
append(list, x) == Append(list, x)

\* json.dump(chunks, f) into the file opened with "w"
json_dump(data) == [written |-> TRUE, data |-> data]

\* a faulty fetch: no raise_for_status()
FetchIgnoringStatus(variant) ==
  /\ script = variant
  /\ pc = "start"
  /\ IF response.status = 0
     THEN pc' = "aborted" /\ error' = "ConnectionError"
     ELSE pc' = "parse" /\ error' = error
  /\ UNCHANGED <<script, response, pages, full_text, parts, it, chunks, origin,
                 paragraphs, el, outfile>>

(***************************************************************************)
(* requests.get(url); resp.raise_for_status()                              *)
(* (wcag_scraper.py 12-13, import requests.py 7-8)                         *)
(***************************************************************************)
Fetch(variant) ==
  /\ script = variant
  /\ pc = "start"
  /\ IF response.status = 0
     THEN pc' = "aborted" /\ error' = "ConnectionError"
     ELSE IF RaisesForStatus(response.status)
     THEN pc' = "aborted" /\ error' = "HTTPError"
     ELSE pc' = "parse" /\ error' = error
  /\ UNCHANGED <<script, response, pages, full_text, parts, it, chunks, origin,
                 paragraphs, el, outfile>>

HtmlFetch == Fetch("html")

(***************************************************************************)
(* wcag_scraper.py 14-30: flatten the main element to text, split it,      *)
(* skip parts[0].                                                          *)
(***************************************************************************)
HtmlSplit ==
  /\ script = "html"
  /\ pc = "parse"
  /\ full_text' = get_text(response.page.strings, <<NL>>)
  /\ parts' = re_split("html", full_text')
  /\ it' = 2
  /\ chunks' = <<>>
  /\ origin' = <<>>
  /\ pc' = "loop"
  /\ UNCHANGED <<script, response, pages, paragraphs, el, outfile, error>>

\* wcag_scraper.py 33-59: the chunk of one (header, body) pair
HtmlChunk(header, body) ==
  LET m == HtmlDecompose(clean(header))
      stripped == Strip(body)
  IN  [ok |-> m.ok,
       chunk |-> [id |-> m.id, section |-> m.id, title |-> m.title,
                  level |-> LevelOf(stripped),
                  text |-> clean(RemoveLevels(stripped)),
                  source |-> WCAG_URL]]

(***************************************************************************)
(* One round of "for header, body in zip(it, it)": zip ends when the       *)
(* iterator cannot give both a header and a body.                          *)
(***************************************************************************)
HtmlLoop ==
  /\ script = "html"
  /\ pc = "loop"
  /\ IF it + 1 <= Len(parts)
     THEN LET r == HtmlChunk(parts[it], parts[it + 1])
          IN  /\ it' = it + 2
              /\ pc' = pc
              /\ IF r.ok
                 THEN /\ chunks' = append(chunks, r.chunk)
                      /\ origin' = append(origin, it \div 2)
                 ELSE UNCHANGED <<chunks, origin>>
     ELSE /\ pc' = "write"
          /\ UNCHANGED <<it, chunks, origin>>
  /\ UNCHANGED <<script, response, pages, full_text, parts, paragraphs, el,
                 outfile, error>>

\* wcag_scraper.py 66-70
HtmlWrite ==
  /\ script = "html"
  /\ pc = "write"
  /\ outfile' = json_dump(chunks)
  /\ pc' = "done"
  /\ UNCHANGED <<script, response, pages, full_text, parts, it, chunks, origin,
                 paragraphs, el, error>>

(***************************************************************************)
(* wcag22pdfscraper.py 10-15                                               *)
(***************************************************************************)
PdfRead ==
  /\ script = "pdf"
  /\ pc = "start"
  /\ chunks' = <<>>
  /\ origin' = <<>>
  /\ full_text' = ReadPages(pages)
  /\ pc' = "parse"
  /\ UNCHANGED <<script, response, pages, parts, it, paragraphs, el, outfile,
                 error>>

\* wcag22pdfscraper.py 19-25: split, then next(it) skips parts[0]
PdfSplit ==
  /\ script = "pdf"
  /\ pc = "parse"
  /\ parts' = re_split("pdf", full_text)
  /\ it' = 2
  /\ pc' = "loop"
  /\ UNCHANGED <<script, response, pages, full_text, chunks, origin, paragraphs,
                 el, outfile, error>>

\* wcag22pdfscraper.py 28-43: the chunk of one (header, body) pair
PdfChunk(header, body) ==
  LET m == PdfDecompose(pdf_clean(header))
  IN  [ok |-> m.ok,
       chunk |-> [id |-> m.id, section |-> m.id, title |-> m.title,
                  text |-> pdf_clean(body), source |-> PDF_SOURCE]]

PdfLoop ==
  /\ script = "pdf"
  /\ pc = "loop"
  /\ IF it + 1 <= Len(parts)
     THEN LET r == PdfChunk(parts[it], parts[it + 1])
          IN  /\ it' = it + 2
              /\ pc' = pc
              /\ IF r.ok
                 THEN /\ chunks' = append(chunks, r.chunk)
                      /\ origin' = append(origin, it \div 2)
                 ELSE UNCHANGED <<chunks, origin>>
     ELSE /\ pc' = "write"
          /\ UNCHANGED <<it, chunks, origin>>
  /\ UNCHANGED <<script, response, pages, full_text, parts, paragraphs, el,
                 outfile, error>>

\* wcag22pdfscraper.py 45-46
PdfWrite ==
  /\ script = "pdf"
  /\ pc = "write"
  /\ outfile' = json_dump(chunks)
  /\ pc' = "done"
  /\ UNCHANGED <<script, response, pages, full_text, parts, it, chunks, origin,
                 paragraphs, el, error>>

(***************************************************************************)
(* import requests.py                                                      *)
(***************************************************************************)
FlatFetch == Fetch("flat")

\* 11-18: content = soup.find("main") or soup.body is None when the page has
\* neither; content.find_all then raises AttributeError
FlatParse ==
  /\ script = "flat"
  /\ pc = "parse"
  /\ IF response.page.hasBody
     THEN pc' = "scan" /\ error' = error
     ELSE pc' = "aborted" /\ error' = "AttributeError"
  /\ paragraphs' = <<>>
  /\ it' = 1
  /\ UNCHANGED <<script, response, pages, full_text, parts, chunks, origin, el,
                 outfile>>

\* a faulty test: every text kept
KeepAll(text) == TRUE

\* 21: "if text:", an empty str is false

KeepText(text) == text # <<>>

\* 19-22: one round of "for el in content.find_all(...)"; 26: chunks = []
FlatScan ==
  /\ script = "flat"
  /\ pc = "scan"
  /\ IF it <= Len(response.page.elements)
     THEN LET e == response.page.elements[it]
              text == get_text(e.strings, <<" ">>)
          IN  /\ el' = e
              /\ paragraphs' = IF KeepText(text) THEN append(paragraphs, text)
                                                ELSE paragraphs
              /\ it' = it + 1
              /\ pc' = pc
              /\ UNCHANGED chunks
     ELSE /\ chunks' = <<>>
          /\ it' = 1
          /\ pc' = "build"
          /\ UNCHANGED <<el, paragraphs>>
  /\ UNCHANGED <<script, response, pages, full_text, parts, origin, outfile,
                 error>>

\* 28-33: the chunk of paragraphs[i] (i from 0); a Tag is always true
FlatChunk(i, para) ==
  [id |-> "access-board-ict-" \o ToString(i), source |-> url, text |-> para,
   type |-> el.name]

\* 27-34: one round of "for i, para in enumerate(paragraphs)"
FlatBuild ==
  /\ script = "flat"
  /\ pc = "build"
  /\ IF it <= Len(paragraphs)
     THEN /\ chunks' = append(chunks, FlatChunk(it - 1, paragraphs[it]))
          /\ it' = it + 1
          /\ pc' = pc
     ELSE /\ pc' = "write"
          /\ UNCHANGED <<it, chunks>>
  /\ UNCHANGED <<script, response, pages, full_text, parts, origin, paragraphs,
                 el, outfile, error>>

\* 37-38
FlatWrite ==
  /\ script = "flat"
  /\ pc = "write"
  /\ outfile' = json_dump(chunks)
  /\ pc' = "done"
  /\ UNCHANGED <<script, response, pages, full_text, parts, it, chunks, origin,
                 paragraphs, el, error>>

Next ==
  \/ HtmlFetch
  \/ HtmlSplit
  \/ HtmlLoop
  \/ HtmlWrite
  \/ PdfRead
  \/ PdfSplit
  \/ PdfLoop
  \/ PdfWrite
  \/ FlatFetch
  \/ FlatParse
  \/ FlatScan
  \/ FlatBuild
  \/ FlatWrite

Spec == Init /\ [][Next]_vars

(***************************************************************************)
(* clean() on its own: every string over CleanAlphabet of length at most   *)
(* MaxLen is cleaned once, and the result cleaned again.                   *)
(***************************************************************************)
MaxLen == 6
CleanAlphabet == {" ", "\t", NL, "a"}

InitClean ==
  /\ script = "clean"
  /\ pc = "start"
  /\ full_text \in SeqsUpTo(CleanAlphabet, MaxLen)
  /\ response = NoResponse
  /\ pages = <<>>
  /\ parts = <<>>
  /\ it = 1
  /\ chunks = <<>>
  /\ origin = <<>>
  /\ paragraphs = <<>>
  /\ el = Unbound
  /\ outfile = [written |-> FALSE, data |-> <<>>]
  /\ error = "none"

CleanOnce ==
  /\ script = "clean"
  /\ pc = "start"
  /\ parts' = <<clean(full_text), pdf_clean(full_text)>>
  /\ pc' = "once"
  /\ UNCHANGED <<script, response, pages, full_text, it, chunks, origin,
                 paragraphs, el, outfile, error>>

CleanAgain ==
  /\ script = "clean"
  /\ pc = "once"
  /\ chunks' = <<clean(parts[1]), pdf_clean(parts[2])>>
  /\ pc' = "twice"
  /\ UNCHANGED <<script, response, pages, full_text, parts, it, origin,
                 paragraphs, el, outfile, error>>

NextClean ==
  \/ CleanOnce
  \/ CleanAgain

SpecClean == InitClean /\ [][NextClean]_vars

(***************************************************************************)
(* What the claims speak of, read off the source text itself.              *)
(***************************************************************************)
HeadingVariant == script \in {"html", "pdf"}

\* the heading matches of the text of this run
Matches == IF HeadingVariant THEN HeadingMatches(script, full_text) ELSE <<>>

\* the text of the k-th heading match
PairHeader(ms, k) == SubSeq(full_text, ms[k].start, ms[k].end - 1)

\* the text between the k-th heading match and the next one (or the end)
PairBody(ms, k) ==
  SubSeq(full_text, ms[k].end,
         IF k < Len(ms) THEN ms[k + 1].start - 1 ELSE Len(full_text))

\* the identifier-decomposition rule on a cleaned header: the identifier
\* digit.digit.digits (after the words and whitespace in wcag_scraper.py),
\* then whitespace, then the label
WellFormed(variant, h) ==
  LET a == IF variant = "html" THEN 1 + Len(SuccessCriterion) ELSE 1
      b == IF variant = "html" THEN RunEnd(h, a, Whitespace) ELSE 1
      c == IdEnd(h, b)
  IN  /\ variant = "html" => LitAt(h, 1, SuccessCriterion) /\ b > a
      /\ c # 0
      /\ c <= Len(h)
      /\ IsSpace(h[c])

Malformed(ms, k) == ~WellFormed(script, clean(PairHeader(ms, k)))

MalformedPairs(ms) == {k \in 1..Len(ms) : Malformed(ms, k)}

\* the (header, body) pairs the loop has been through
PairsDone(ms) ==
  IF pc \in {"write", "done"} THEN 1..Len(ms)
  ELSE IF pc = "loop" THEN 1..((it - 2) \div 2)
  ELSE {}

Range(f) == {f[i] : i \in DOMAIN f}

\* the text the script gives the chunk of the k-th pair
OwnText(ms, k) ==
  IF script = "html" THEN clean(RemoveLevels(Strip(PairBody(ms, k))))
  ELSE pdf_clean(PairBody(ms, k))

\* cleaned form, said without clean(): no whitespace but the single space,
\* none at either end, no two in a row
IsCleanText(t) ==
  /\ \A i \in 1..Len(t) : IsSpace(t[i]) => t[i] = " "
  /\ t # <<>> => ~IsSpace(t[1]) /\ ~IsSpace(t[Len(t)])
  /\ \A i \in 1..(Len(t) - 1) : ~(IsSpace(t[i]) /\ IsSpace(t[i + 1]))

\* the level markers of b, said without the matcher: <<i, w, n>> is the
\* words "(Level" at i, then w whitespace characters, then n times A (one
\* to three), then ")"
Markers(b) ==
  LET opens == {i \in 1..Len(b) : LitAt(b, i, LevelOpen)}
  IN  {m \in opens \X (1..Len(b)) \X (1..3) :
         LET w == m[2]
             n == m[3]
             a == m[1] + Len(LevelOpen)
         IN  /\ a + w + n <= Len(b)
             /\ \A k \in 0..(w - 1) : IsSpace(b[a + k])
             /\ \A k \in 0..(n - 1) : b[a + w + k] = "A"
             /\ b[a + w + n] = ")"}

FirstMarker(b) == CHOOSE m \in Markers(b) : \A o \in Markers(b) : m[1] <= o[1]

FirstMarkerLevel(b) == [k \in 1..FirstMarker(b)[3] |-> "A"]

\* the elements of the page whose text is not empty, in page order
RECURSIVE NonEmptyElements(_)
NonEmptyElements(es) ==
  IF es = <<>> THEN <<>>
  ELSE LET rest == NonEmptyElements(Tail(es))
       IN  IF get_text(Head(es).strings, <<" ">>) # <<>>
           THEN <<Head(es)>> \o rest
           ELSE rest

(***************************************************************************)
(* C1: in a heading-variant run the chunks never outnumber the heading     *)
(* matches of the text; in the flat run they never outnumber the elements  *)
(* scanned.                                                                *)
(***************************************************************************)
ChunkCountBounded ==
  /\ HeadingVariant => Len(chunks) <= Len(Matches)
  /\ script = "flat" => Len(chunks) <= Len(response.page.elements)

\* a finished PDF run with a chunk and with a heading that gave none
ChunkCountWitness ==
  /\ script = "pdf"
  /\ pc = "done"
  /\ Len(chunks) >= 1
  /\ Len(chunks) < Len(Matches)

(***************************************************************************)
(* C2: in a heading-variant run every step leaves the chunk list as it was *)
(* or appends one chunk to it, and the chunks are in source order: each is *)
(* the chunk of its own heading match, and an earlier chunk is from a      *)
(* match that starts earlier in the text.                                  *)
(***************************************************************************)
AppendOnly ==
  \/ chunks' = chunks
  \/ /\ Len(chunks') = Len(chunks) + 1
     /\ SubSeq(chunks', 1, Len(chunks)) = chunks

InSourceOrder ==
  LET ms == Matches
  IN  /\ Len(origin) = Len(chunks)
      /\ \A i \in DOMAIN chunks :
           /\ origin[i] \in 1..Len(ms)
           /\ chunks[i].text = OwnText(ms, origin[i])
           /\ chunks[i].id = (IF script = "html"
                                THEN HtmlDecompose(clean(PairHeader(ms, origin[i])))
                                ELSE PdfDecompose(pdf_clean(PairHeader(ms, origin[i])))).id
      /\ \A i, j \in DOMAIN chunks :
           i < j => ms[origin[i]].start < ms[origin[j]].start

ChunksInSourceOrder ==
  /\ [](HeadingVariant => InSourceOrder)
  /\ [][HeadingVariant => AppendOnly]_vars

\* a finished heading-variant run with at least two chunks
SourceOrderWitness ==
  /\ HeadingVariant
  /\ pc = "done"
  /\ Len(chunks) >= 2

(***************************************************************************)
(* C3: a heading match whose cleaned text does not satisfy the             *)
(* decomposition rule gives no chunk and no error, and the chunk of the    *)
(* heading after it (as every other chunk of the run) has the cleaned body *)
(* that follows its own heading as its text.                               *)
(***************************************************************************)
MalformedHeadingSkipped ==
  HeadingVariant =>
    LET ms == Matches
    IN  \A k \in MalformedPairs(ms) \cap PairsDone(ms) :
          /\ k \notin Range(origin)
          /\ error = "none"
          /\ pc # "aborted"
          /\ \A i \in DOMAIN chunks :
               /\ origin[i] = k + 1 => chunks[i].text = clean(PairBody(ms, k + 1))
               /\ chunks[i].text = OwnText(ms, origin[i])

\* a finished PDF run that skipped a malformed heading and kept a chunk
MalformedSkipWitness ==
  /\ script = "pdf"
  /\ pc = "done"
  /\ MalformedPairs(Matches) # {}
  /\ Len(chunks) >= 1

(***************************************************************************)
(* C4 as claimed: in wcag_scraper.py a body with a level marker gives a    *)
(* chunk whose level is the captured value and whose text has no substring *)
(* that matches the marker pattern; a body with no marker gives level      *)
(* None.                                                                   *)
(***************************************************************************)
LevelExtractedNoMarkerLeft ==
  script = "html" =>
    LET ms == Matches
    IN  \A i \in DOMAIN chunks :
          LET b == PairBody(ms, origin[i])
          IN  IF Markers(b) # {}
              THEN /\ chunks[i].level = FirstMarkerLevel(b)
                   /\ Markers(chunks[i].text) = {}
              ELSE chunks[i].level = None

(***************************************************************************)
(* C4 amended: the level is the value captured by the first marker of the  *)
(* body (None when there is none), and the text is the cleaned body with   *)
(* the marker matches of one left-to-right pass removed; it has a marker   *)
(* only where the removal joined one.                                      *)
(***************************************************************************)
LevelExtractedMatchesRemoved ==
  script = "html" =>
    LET ms == Matches
    IN  \A i \in DOMAIN chunks :
          LET b == PairBody(ms, origin[i])
          IN  /\ IF Markers(b) # {}
                 THEN chunks[i].level = FirstMarkerLevel(b)
                 ELSE chunks[i].level = None
              /\ chunks[i].text = clean(RemoveLevels(Strip(b)))
              /\ Markers(chunks[i].text) # {} => Markers(RemoveLevels(b)) # {}

\* a finished run with a chunk of level AAA, one whose body had no marker,
\* and none of them with a marker left in its text
LevelWitness ==
  /\ script = "html"
  /\ pc = "done"
  /\ \E i \in DOMAIN chunks :
       /\ chunks[i].level = <<"A", "A", "A">>
       /\ Markers(chunks[i].text) = {}
       /\ chunks[i].text # <<>>

(***************************************************************************)
(* C5 as claimed: a response whose status is not a success status (2xx)    *)
(* ends the run at the fetch: nothing is parsed, no chunk is built, the    *)
(* file is not written.                                                    *)
(***************************************************************************)
NothingDone ==
  /\ pc \in {"start", "aborted"}
  /\ pc = "aborted" => ~ENABLED Next
  /\ full_text = <<>>
  /\ parts = <<>>
  /\ paragraphs = <<>>
  /\ chunks = <<>>
  /\ ~outfile.written

TypeIsOwnTag ==
  script = "flat" =>
    LET own == NonEmptyElements(response.page.elements)
    IN  \A i \in DOMAIN chunks : i <= Len(own) /\ chunks[i].type = own[i].name

(***************************************************************************)
(* C7: in the flat run the chunks are, in element order, one for every     *)
(* element scanned whose text is not empty and none for the others, and    *)
(* the k-th of them (from 0) has k in its id.                              *)
(***************************************************************************)
FlatChunkPerNonEmptyElement ==
  script = "flat" =>
    LET own == NonEmptyElements(response.page.elements)
    IN  /\ Len(chunks) <= Len(own)
        /\ pc \in {"write", "done"} => Len(chunks) = Len(own)
        /\ \A i \in DOMAIN chunks :
             /\ chunks[i].text = get_text(own[i].strings, <<" ">>)
             /\ chunks[i].text # <<>>
             /\ chunks[i].id = "access-board-ict-" \o ToString(i - 1)

\* a finished run where an element with no text comes before one with
\* text, so that the index of the chunk is not the position of the element
FlatIndexWitness ==
  /\ script = "flat"
  /\ pc = "done"
  /\ Len(chunks) >= 2
  /\ Len(chunks) < Len(response.page.elements)
  /\ get_text(response.page.elements[1].strings, <<" ">>) = <<>>

(***************************************************************************)
(* C8: clean(clean(x)) = clean(x), for the clean of both scripts.          *)
(***************************************************************************)
CleanIdempotent ==
  script = "clean" /\ pc = "twice" => chunks = parts

\* a string that clean() changes has been cleaned twice
CleanWitness ==
  /\ script = "clean"
  /\ pc = "twice"
  /\ parts[1] # full_text
  /\ parts[1] # <<>>
  /\ Len(full_text) = MaxLen

(***************************************************************************)
(* C9 as claimed: the text of every chunk of the three scripts is in       *)
(* cleaned form.                                                           *)
(***************************************************************************)
EveryTextIsClean ==
  \A i \in DOMAIN chunks : script # "clean" => IsCleanText(chunks[i].text)

(***************************************************************************)
(* C9 amended: the text of every chunk of the two heading-variant scripts  *)
(* is in cleaned form, and a pair with an empty body that decomposes gives *)
(* a chunk with the empty text; the text of a chunk of the flat script is  *)
(* not empty and has no whitespace at either end.                          *)
(***************************************************************************)
HeadingTextIsClean ==
  /\ HeadingVariant =>
       LET ms == Matches
       IN  /\ \A i \in DOMAIN chunks : IsCleanText(chunks[i].text)
           /\ \A k \in PairsDone(ms) \ MalformedPairs(ms) :
                PairBody(ms, k) = <<>> =>
                  \E i \in DOMAIN chunks : origin[i] = k /\ chunks[i].text = <<>>
  /\ script = "flat" =>
       \A i \in DOMAIN chunks :
         LET t == chunks[i].text
         IN  t # <<>> /\ ~IsSpace(t[1]) /\ ~IsSpace(t[Len(t)])

\* a finished heading-variant run with a chunk whose body was not in
\* cleaned form and a chunk whose body was empty
CleanTextWitness ==
  /\ HeadingVariant
  /\ pc = "done"
  /\ \E i \in DOMAIN chunks :
       /\ chunks[i].text # <<>>
       /\ ~IsCleanText(PairBody(Matches, origin[i]))
  /\ \E i \in DOMAIN chunks :
       /\ chunks[i].text = <<>>
       /\ PairBody(Matches, origin[i]) = <<>>

(***************************************************************************)
(* C10: in both heading-variant scripts the segments after the prefix are  *)
(* twice the heading matches, the header and the body of every match in    *)
(* turn, so the loop goes through every match and the chunks of a finished *)
(* loop are as many as the matches less those that do not decompose.       *)
(***************************************************************************)
SegmentsPairUp ==
  HeadingVariant /\ pc \in {"loop", "write", "done"} =>
    LET ms == Matches
    IN  /\ Len(parts) - 1 = 2 * Len(ms)
        /\ \A k \in 1..Len(ms) :
             /\ parts[2 * k] = PairHeader(ms, k)
             /\ parts[2 * k + 1] = PairBody(ms, k)
        /\ pc \in {"write", "done"} =>
             /\ it = Len(parts) + 1
             /\ Len(chunks) = Len(ms) - Cardinality(MalformedPairs(ms))

\* a finished run on a text that ends with a heading, with a chunk for it
SegmentsWitness ==
  /\ HeadingVariant
  /\ pc = "done"
  /\ Len(Matches) >= 2
  /\ Matches[Len(Matches)].end = Len(full_text) + 1
  /\ Len(chunks) = Len(Matches)

====
